---------------------------- MODULE Spec2Model ----------------------------
(***************************************************************************)
(* Model of the data-access core in src/database/main.go: the bounded      *)
(* retry of OpenDatabase, the course repository (InsertCourse,             *)
(* DeleteCourse, GetCourse, GetCourseCRNs) and QueryCourse, over the three *)
(* tables courses, instructors and meetings.                               *)
(*                                                                         *)
(* Every db.Exec / db.Query / db.QueryRow is one atomic step of the store; *)
(* a call is a sequence of such steps, and the steps of concurrent calls   *)
(* (goroutines sharing the handle db) interleave.  Text values are         *)
(* sequences of one-character strings so that LIKE can be computed.        *)
(***************************************************************************)
EXTENDS Integers, Sequences, FiniteSets, TLC

VARIABLES
    courses,      \* table courses, in rowid order
    instructors,  \* table instructors, in id order
    meetings,     \* table meetings, in id order
    instrSeq,     \* AUTOINCREMENT counter of instructors
    meetSeq,      \* AUTOINCREMENT counter of meetings
    pc,           \* per goroutine: the statement it executes next
    call,         \* per goroutine: the call in progress and its arguments
    loc,          \* per goroutine: the locals of the call in progress
    ret,          \* per goroutine: what its last call returned
    faultLimit,   \* store failures that may be injected in this run
    faultBudget,  \* store failures that may still be injected
    callsLeft,    \* calls that may still be started, or NoLimit
    prevIns,      \* history: the course of the successful InsertCourse that
                  \* immediately preceded the current call of the goroutine
    cleared,      \* history: CRNs whose DeleteCourse returned nil with no
                  \* InsertCourse of that CRN in progress then or started since
    hadCourse,    \* history: CRNs that had a course row in an earlier state
    atCall,       \* history, per goroutine: whether the CRN of its current or
                  \* last DeleteCourse had a course row, and child rows, when
                  \* the call was made
    handle,       \* the package variable db
    openPc,       \* position of OpenDatabase
    openI,        \* loop variable i of OpenDatabase
    openErr,      \* local variable err of OpenDatabase
    openRet,      \* what OpenDatabase returned
    attempts,     \* history: outcome of every sql.Open attempt, in order
    sleeps,       \* history: every time.Sleep duration, in units of baseDelay
    initPc,       \* position of Init
    tables,       \* the tables that exist in the database file
    ddl,          \* history: the CREATE statements the current Init issued
    inits         \* history: the number of Init calls that have returned

storeVars == <<courses, instructors, meetings, instrSeq, meetSeq>>
procVars == <<pc, call, loc, ret, faultLimit, faultBudget, callsLeft, prevIns,
              cleared, hadCourse, atCall>>
openVars == <<handle, openPc, openI, openErr, openRet, attempts, sleeps>>
initVars == <<initPc, tables, ddl, inits>>
vars == <<courses, instructors, meetings, instrSeq, meetSeq, pc, call, loc, ret,
          faultLimit, faultBudget, callsLeft, prevIns, cleared, hadCourse,
          atCall,
          handle, openPc, openI, openErr, openRet, attempts, sleeps,
          initPc, tables, ddl, inits>>

-----------------------------------------------------------------------------
(* Bounds of the model *)

\* largest surrogate id either AUTOINCREMENT counter may hand out
MaxRowId == 2

\* store failures (I/O error, busy, interrupted cursor) injected in one run
MaxFaults == 1

\* calls the goroutines of the concurrent specification start in one run
MaxCalls == 4

\* repository calls made in one run of the startup specification
MaxBootCalls == 2

\* Init calls made in one run of the startup specification
MaxInits == 2

\* the concurrent specification has runs without store failures and runs
\* with one
ConcFaultLimits == {0, 1}

\* goroutines calling into the package concurrently
Procs == {"g1", "g2"}

\* the goroutines that also make the reading calls (reads do not change
\* the store, so two concurrent reads do not affect each other)
ReadProcs == {"g1"}

\* the goroutine of the sequential specification
SeqProcs == {"g1"}

-----------------------------------------------------------------------------
(* Values *)

Nil == [nil |-> TRUE]

Some(x) == [nil |-> FALSE, v |-> x]

ErrUnique == "UNIQUE constraint failed: courses.term_crn"

ErrNoRows == "sql: no rows in result set"

ErrStore == "store failure"

ErrNotQueryable == "key is not queryable"

I1 == [LastName |-> "Doe", FirstName |-> "Jane", Email |-> "jdoe"]

I2 == [LastName |-> "Roe", FirstName |-> "Rick", Email |-> "rroe"]

M1 == [Days |-> "MWF", Building |-> "Hall", Room |-> "101", Time |-> "10"]

M2 == [Days |-> "TR", Building |-> "Lab", Room |-> "7", Time |-> "14"]

\* the courses callers pass to InsertCourse: two share a CRN, the child
\* lists have lengths 0, 1 and 2
K1 == [CRN |-> <<"1">>, Title |-> <<"a", "b">>, Subject |-> <<"M">>,
       Number |-> <<"2", "1">>, Description |-> <<"d">>,
       Instructors |-> <<I1, I2>>, Meetings |-> <<M1>>]

K2 == [CRN |-> <<"1">>, Title |-> <<"b">>, Subject |-> <<"C">>,
       Number |-> <<"1">>, Description |-> <<"e">>,
       Instructors |-> <<>>, Meetings |-> <<M2, M1>>]

K3 == [CRN |-> <<"2">>, Title |-> <<"B">>, Subject |-> <<"C">>,
       Number |-> <<"1", "2">>, Description |-> <<"f">>,
       Instructors |-> <<I1>>, Meetings |-> <<>>]

CourseInputs == {K1, K2, K3}

CRNs == {c.CRN : c \in CourseInputs}

\* QueryCourse(key, values...)
Q(key, values) == [key |-> key, values |-> values]

\* the calls of QueryCourse: every whitelisted key and one other column, with
\* values that match some stored rows and not others, a LIKE wildcard, and
\* too few values
QueryInputs ==
    { Q("term_crn", <<>>),
      Q("term_crn", << <<"1">> >>),
      Q("title", << <<"b">> >>),
      Q("title", << <<"%">> >>),
      Q("subject_code", << <<"C">> >>),
      Q("course_number", << <<"1">> >>),
      Q("subject-number", << <<"C">> >>),
      Q("subject-number", << <<"C">>, <<"1">> >>),
      Q("subject-number", << <<"M">>, <<"%">> >>),
      Q("description", <<>>),
      Q("description", << <<"1">> >>) }

\* inputs of the concurrent specification
ConcCourseInputs == {K2, K3}

ConcQueryInputs ==
    { Q("subject_code", <<>>),
      Q("subject_code", << <<"C">> >>),
      Q("description", << <<"C">> >>) }

-----------------------------------------------------------------------------
(* SQL text matching *)

\* ASCII case folding, as done by LIKE
Lower(ch) ==
    CASE ch = "A" -> "a"
      [] ch = "B" -> "b"
      [] ch = "C" -> "c"
      [] ch = "M" -> "m"
      [] OTHER -> ch

RECURSIVE Like(_, _)
\* text LIKE pattern: % matches any run of characters, _ any one character,
\* every other character matches itself up to ASCII case; no ESCAPE clause
Like(pattern, text) ==
    IF pattern = <<>> THEN text = <<>>
    ELSE IF Head(pattern) = "%"
         THEN \/ Like(Tail(pattern), text)
              \/ text # <<>> /\ Like(pattern, Tail(text))
         ELSE /\ text # <<>>
              /\ \/ Head(pattern) = "_"
                 \/ Lower(Head(pattern)) = Lower(Head(text))
              /\ Like(Tail(pattern), Tail(text))

\* the argument "%"+v+"%" built by QueryCourse
Wrap(v) == <<"%">> \o v \o <<"%">>

-----------------------------------------------------------------------------
(* The store: rows and statements *)

NoErr == "nil"

\* the row INSERT_COURSE_STATEMENT writes for course c
CourseRow(c) ==
    [term_crn |-> c.CRN, title |-> c.Title, subject_code |-> c.Subject,
     course_number |-> c.Number, description |-> c.Description]

\* the row INSERT_INSTUCTOR_STATEMENT writes, with the id AUTOINCREMENT gives it
InstructorRow(id, ins, crn) ==
    [id |-> id, last_name |-> ins.LastName, first_name |-> ins.FirstName,
     email |-> ins.Email, term_crn |-> crn]

\* the row INSERT_MEETING_STATEMENT writes, with the id AUTOINCREMENT gives it
MeetingRow(id, m, crn) ==
    [id |-> id, days |-> m.Days, building |-> m.Building, room |-> m.Room,
     time |-> m.Time, term_crn |-> crn]

\* WHERE term_crn = ? over a table
RowsOf(table, crn) ==
    LET Test(r) == r.term_crn = crn IN SelectSeq(table, Test)

\* a DELETE without its WHERE clause
DeleteFromAll(table, crn) == <<>>

\* DELETE FROM table WHERE term_crn = ?
DeleteFrom(table, crn) ==
    LET Test(r) == r.term_crn # crn IN SelectSeq(table, Test)

\* a courses table that takes a second row with the same term_crn
UniqueViolationUnchecked(crn) == FALSE

\* term_crn TEXT PRIMARY KEY: a second row with the same term_crn is refused
UniqueViolation(crn) == RowsOf(courses, crn) # <<>>

\* the Instructor value GetCourse appends for a scanned row (id dropped)
ScanInstructor(r) ==
    [LastName |-> r.last_name, FirstName |-> r.first_name, Email |-> r.email]

\* the Meeting value GetCourse appends for a scanned row (id dropped)
ScanMeeting(r) ==
    [Days |-> r.days, Building |-> r.building, Room |-> r.room, Time |-> r.time]

\* the Course value GetCourse returns
Aggregate(row, ins, ms) ==
    [CRN |-> row.term_crn, Title |-> row.title, Subject |-> row.subject_code,
     Number |-> row.course_number, Description |-> row.description,
     Instructors |-> ins, Meetings |-> ms]

Prefix(s, k) == SubSeq(s, 1, k)

\* the instructors scanned from instructor rows, in row order
ScanInstructors(rows) == [k \in 1..Len(rows) |-> ScanInstructor(rows[k])]

\* the meetings scanned from meeting rows, in row order
ScanMeetings(rows) == [k \in 1..Len(rows) |-> ScanMeeting(rows[k])]

\* the term_crn column scanned from course rows, in row order
ScanCRNs(rows) == [k \in 1..Len(rows) |-> rows[k].term_crn]

-----------------------------------------------------------------------------
(* QueryCourse: whitelist and predicates *)

\* a whitelist that also lets the description column through
QueryableKeysWithDescription ==
    {"term_crn", "title", "subject_code", "course_number", "subject-number",
     "description"}

\* the keys of the map QueryableKeys
QueryableKeys == {"term_crn", "title", "subject_code", "course_number",
                  "subject-number"}

IsQueryable(key) == key \in QueryableKeys

\* values the switch of QueryCourse indexes: values[0], and values[1] for
\* subject-number
ValuesNeeded(key) == IF key = "subject-number" THEN 2 ELSE 1

\* the WHERE clause QueryCourse builds for key, applied to course row r
\* (Go's values[0], values[1] are values[1], values[2] here)
RowMatches(key, values, r) ==
    CASE key = "title" -> Like(Wrap(values[1]), r.title)
      [] key = "subject-number" ->
            /\ r.subject_code = values[1]
            /\ Like(Wrap(values[2]), r.course_number)
      [] OTHER -> r[key] = values[1]

\* the term_crn column of the rows the predicate query selects, in scan order
MatchingCRNs(key, values) ==
    LET Test(r) == RowMatches(key, values, r)
    IN ScanCRNs(SelectSeq(courses, Test))

-----------------------------------------------------------------------------
(* Goroutines: call, step, return *)

NoCall == [op |-> "none", arg |-> <<>>]

\* nstmt counts the store statements the call issued; faulted records
\* whether the store failed in one of them or under one of its cursors
NoRet == [op |-> "none", arg |-> <<>>, val |-> Nil, err |-> NoErr, nstmt |-> 0,
          faulted |-> FALSE]

NoLoc == [nstmt |-> 0, faulted |-> FALSE, i |-> 0, rows |-> <<>>,
          courses |-> <<>>, crn |-> <<>>, row |-> Nil, instructors |-> <<>>]

\* a Go panic ends the process: no goroutine takes another step
Crashed == \E q \in Procs : pc[q] = "panic"

NoLimit == 0 - 1

\* a goroutine may start a call; the concurrent specification counts them
MayCall == callsLeft # 0

CountCall == callsLeft' = IF callsLeft > 0 THEN callsLeft - 1 ELSE callsLeft

\* the course whose InsertCourse by p has just returned nil, if that was p's
\* last call
PrevInsert(p) ==
    IF ret[p].op = "InsertCourse" /\ ret[p].err = NoErr
    THEN Some(ret[p].arg) ELSE Nil

\* every step records the CRNs that have a course row before it
Recorded ==
    hadCourse' = hadCourse \cup {courses[k].term_crn : k \in DOMAIN courses}

NoRows == [course |-> FALSE, children |-> FALSE]

\* what the tables hold for the CRN of a DeleteCourse when it is called
RowsAtCall(op, arg) ==
    IF op = "DeleteCourse"
    THEN [course |-> RowsOf(courses, arg) # <<>>,
          children |-> \/ RowsOf(instructors, arg) # <<>>
                       \/ RowsOf(meetings, arg) # <<>>]
    ELSE NoRows

\* goroutine p enters function op with argument arg at statement first
Begin(p, op, arg, first, l) ==
    /\ pc[p] = "idle"
    /\ ~Crashed
    /\ MayCall
    /\ CountCall
    /\ pc' = [pc EXCEPT ![p] = first]
    /\ call' = [call EXCEPT ![p] = [op |-> op, arg |-> arg]]
    /\ loc' = [loc EXCEPT ![p] = l]
    /\ ret' = [ret EXCEPT ![p] = NoRet]
    /\ prevIns' = [prevIns EXCEPT ![p] = PrevInsert(p)]
    /\ cleared' = IF op = "InsertCourse" THEN cleared \ {arg.CRN} ELSE cleared
    /\ atCall' = [atCall EXCEPT ![p] = RowsAtCall(op, arg)]
    /\ Recorded

\* goroutine p moves to statement next with locals l
Goto(p, next, l) ==
    /\ pc' = [pc EXCEPT ![p] = next]
    /\ loc' = [loc EXCEPT ![p] = l]
    /\ UNCHANGED <<call, ret, callsLeft, prevIns, cleared, atCall>>
    /\ Recorded

\* the call of goroutine p returns (val, err) after n store statements
ReturnF(p, val, err, n, f) ==
    /\ pc' = [pc EXCEPT ![p] = "idle"]
    /\ ret' = [ret EXCEPT ![p] = [op |-> call[p].op, arg |-> call[p].arg,
                                  val |-> val, err |-> err, nstmt |-> n,
                                  faulted |-> f]]
    /\ call' = [call EXCEPT ![p] = NoCall]
    /\ loc' = [loc EXCEPT ![p] = NoLoc]
    /\ cleared' = IF /\ call[p].op = "DeleteCourse"
                     /\ err = NoErr
                     /\ ~\E q \in Procs \ {p} :
                           /\ call[q].op = "InsertCourse"
                           /\ call[q].arg.CRN = call[p].arg
                  THEN cleared \cup {call[p].arg}
                  ELSE cleared
    /\ UNCHANGED <<prevIns, callsLeft, atCall>>
    /\ Recorded

Return(p, val, err, n) ==
    ReturnF(p, val, err, n, loc[p].faulted \/ err = ErrStore)

\* the statement goroutine p is about to issue fails in the store
Fault ==
    /\ faultBudget > 0
    /\ faultBudget' = faultBudget - 1
    /\ UNCHANGED faultLimit

NoFault == UNCHANGED <<faultBudget, faultLimit>>

\* p is at statement label and the process is alive
At(p, label) == pc[p] = label /\ ~Crashed

-----------------------------------------------------------------------------
(* InsertCourse *)

CallInsertCourse(p, courseInputs) ==
    /\ \E c \in courseInputs : Begin(p, "InsertCourse", c, "ins_course", NoLoc)
    /\ UNCHANGED <<storeVars, faultLimit, faultBudget, openVars, initVars>>

\* an InsertCourse whose meetings loop stands before its instructors loop
AfterInsertMeetingsFirst(c, stage, i) ==
    LET toInstructors == IF Len(c.Instructors) > 0
                         THEN [pc |-> "ins_instr", i |-> 1]
                         ELSE [pc |-> "return", i |-> 0]
    IN CASE stage = "ins_course" ->
              IF Len(c.Meetings) > 0
              THEN [pc |-> "ins_meet", i |-> 1] ELSE toInstructors
         [] stage = "ins_meet" ->
              IF i < Len(c.Meetings)
              THEN [pc |-> "ins_meet", i |-> i + 1] ELSE toInstructors
         [] OTHER ->
              IF i < Len(c.Instructors)
              THEN [pc |-> "ins_instr", i |-> i + 1]
              ELSE [pc |-> "return", i |-> 0]

\* where InsertCourse goes after statement i of stage succeeded: the next
\* element of the same range loop, the next non-empty loop, or return nil
AfterInsert(c, stage, i) ==
    LET toMeetings == IF Len(c.Meetings) > 0
                      THEN [pc |-> "ins_meet", i |-> 1]
                      ELSE [pc |-> "return", i |-> 0]
    IN CASE stage = "ins_course" ->
              IF Len(c.Instructors) > 0
              THEN [pc |-> "ins_instr", i |-> 1] ELSE toMeetings
         [] stage = "ins_instr" ->
              IF i < Len(c.Instructors)
              THEN [pc |-> "ins_instr", i |-> i + 1] ELSE toMeetings
         [] OTHER ->
              IF i < Len(c.Meetings)
              THEN [pc |-> "ins_meet", i |-> i + 1]
              ELSE [pc |-> "return", i |-> 0]

\* the statement of InsertCourse at stage succeeded
InsertProceed(p, stage) ==
    LET nx == AfterInsert(call[p].arg, stage, loc[p].i)
    IN IF nx.pc = "return"
       THEN Return(p, Nil, NoErr, loc[p].nstmt + 1)
       ELSE Goto(p, nx.pc, [loc[p] EXCEPT !.i = nx.i, !.nstmt = @ + 1])

\* an InsertCourse that drops the error of a failed statement and goes on
ExecFailedIgnored(p, err) ==
    /\ IF call[p].op = "InsertCourse"
       THEN InsertProceed(p, pc[p])
       ELSE Return(p, Nil, err, loc[p].nstmt + 1)
    /\ UNCHANGED storeVars

\* a statement of a write call failed: return err, nothing is rolled back
ExecFailed(p, err) ==
    /\ Return(p, Nil, err, loc[p].nstmt + 1)
    /\ UNCHANGED storeVars

\* db.Exec(INSERT_COURSE_STATEMENT, ...) and the err check after it
InsertCourseRow(p) ==
    /\ At(p, "ins_course")
    /\ \/ Fault /\ ExecFailed(p, ErrStore)
       \/ /\ NoFault
          /\ UniqueViolation(call[p].arg.CRN)
          /\ ExecFailed(p, ErrUnique)
       \/ /\ NoFault
          /\ ~UniqueViolation(call[p].arg.CRN)
          /\ courses' = Append(courses, CourseRow(call[p].arg))
          /\ UNCHANGED <<instructors, meetings, instrSeq, meetSeq>>
          /\ InsertProceed(p, "ins_course")
    /\ UNCHANGED <<openVars, initVars>>

\* db.Exec(INSERT_INSTUCTOR_STATEMENT, ...) for element loc.i of the range
InsertInstructorRow(p) ==
    /\ At(p, "ins_instr")
    /\ instrSeq < MaxRowId
    /\ \/ Fault /\ ExecFailed(p, ErrStore)
       \/ /\ NoFault
          /\ instructors' = Append(instructors,
                InstructorRow(instrSeq + 1, call[p].arg.Instructors[loc[p].i],
                              call[p].arg.CRN))
          /\ instrSeq' = instrSeq + 1
          /\ UNCHANGED <<courses, meetings, meetSeq>>
          /\ InsertProceed(p, "ins_instr")
    /\ UNCHANGED <<openVars, initVars>>

\* db.Exec(INSERT_MEETING_STATEMENT, ...) for element loc.i of the range
InsertMeetingRow(p) ==
    /\ At(p, "ins_meet")
    /\ meetSeq < MaxRowId
    /\ \/ Fault /\ ExecFailed(p, ErrStore)
       \/ /\ NoFault
          /\ meetings' = Append(meetings,
                MeetingRow(meetSeq + 1, call[p].arg.Meetings[loc[p].i],
                           call[p].arg.CRN))
          /\ meetSeq' = meetSeq + 1
          /\ UNCHANGED <<courses, instructors, instrSeq>>
          /\ InsertProceed(p, "ins_meet")
    /\ UNCHANGED <<openVars, initVars>>

-----------------------------------------------------------------------------
(* DeleteCourse *)

CallDeleteCourse(p) ==
    /\ \E crn \in CRNs : Begin(p, "DeleteCourse", crn, "del_course", NoLoc)
    /\ UNCHANGED <<storeVars, faultLimit, faultBudget, openVars, initVars>>

\* a DeleteCourse that deletes the meeting rows before the instructor rows
AfterDeleteMeetingsFirst(stage) ==
    CASE stage = "del_course" -> "del_meet"
      [] stage = "del_meet" -> "del_instr"
      [] OTHER -> "return"

\* a DeleteCourse that deletes the course row and leaves its children to the
\* foreign key
AfterDeleteCourseOnly(stage) == "return"

\* the statement DeleteCourse issues after the one at stage succeeded
AfterDelete(stage) ==
    CASE stage = "del_course" -> "del_instr"
      [] stage = "del_instr" -> "del_meet"
      [] OTHER -> "return"

\* the statement of DeleteCourse at stage succeeded
DeleteProceed(p, stage) ==
    IF AfterDelete(stage) = "return"
    THEN Return(p, Nil, NoErr, loc[p].nstmt + 1)
    ELSE Goto(p, AfterDelete(stage), [loc[p] EXCEPT !.nstmt = @ + 1])

\* db.Exec("DELETE FROM courses WHERE term_crn = ?;", term_crn)
DeleteCourseRow(p) ==
    /\ At(p, "del_course")
    /\ \/ Fault /\ ExecFailed(p, ErrStore)
       \/ /\ NoFault
          /\ courses' = DeleteFrom(courses, call[p].arg)
          /\ UNCHANGED <<instructors, meetings, instrSeq, meetSeq>>
          /\ DeleteProceed(p, "del_course")
    /\ UNCHANGED <<openVars, initVars>>

\* db.Exec("DELETE FROM instructors WHERE term_crn = ?;", term_crn)
DeleteInstructorRows(p) ==
    /\ At(p, "del_instr")
    /\ \/ Fault /\ ExecFailed(p, ErrStore)
       \/ /\ NoFault
          /\ instructors' = DeleteFrom(instructors, call[p].arg)
          /\ UNCHANGED <<courses, meetings, instrSeq, meetSeq>>
          /\ DeleteProceed(p, "del_instr")
    /\ UNCHANGED <<openVars, initVars>>

\* db.Exec("DELETE FROM meetings WHERE term_crn = ?;", term_crn)
DeleteMeetingRows(p) ==
    /\ At(p, "del_meet")
    /\ \/ Fault /\ ExecFailed(p, ErrStore)
       \/ /\ NoFault
          /\ meetings' = DeleteFrom(meetings, call[p].arg)
          /\ UNCHANGED <<courses, instructors, instrSeq, meetSeq>>
          /\ DeleteProceed(p, "del_meet")
    /\ UNCHANGED <<openVars, initVars>>

-----------------------------------------------------------------------------
(* GetCourse, also as called by QueryCourse *)

CallGetCourse(p) ==
    /\ \E crn \in CRNs :
          Begin(p, "GetCourse", crn, "get_course", [NoLoc EXCEPT !.crn = crn])
    /\ UNCHANGED <<storeVars, faultLimit, faultBudget, openVars, initVars>>

\* a QueryCourse that hands back what it has expanded so far with the error
ReadFailedPartial(p, err) ==
    Return(p, Some(loc[p].courses), err, loc[p].nstmt + 1)

\* a statement of a read call failed: GetCourse returns nil, err, and so does
\* the QueryCourse that called it
ReadFailed(p, err) == Return(p, Nil, err, loc[p].nstmt + 1)

\* row := db.QueryRow(SELECT_COUSE_STATEMENT, term_crn); row.Scan(...)
SelectCourseRow(p) ==
    /\ At(p, "get_course")
    /\ \/ Fault /\ ReadFailed(p, ErrStore)
       \/ /\ NoFault
          /\ RowsOf(courses, loc[p].crn) = <<>>
          /\ ReadFailed(p, ErrNoRows)
       \/ /\ NoFault
          /\ RowsOf(courses, loc[p].crn) # <<>>
          /\ Goto(p, "get_instr",
                  [loc[p] EXCEPT !.row = Some(RowsOf(courses, loc[p].crn)[1]),
                                 !.nstmt = @ + 1])
    /\ UNCHANGED <<storeVars, openVars, initVars>>

\* what a "for rows.Next() { rows.Scan; append }" loop can leave in its slice
\* when no Scan fails: every row, or, when the cursor fails under way, the
\* rows before the failure (rows.Next() returns false and rows.Err() is
\* never read)
LoopResults(all, cursorFails) ==
    IF cursorFails THEN {Prefix(all, k) : k \in 0..(Len(all) - 1)} ELSE {all}

\* db.Query(SELECT_INSTRUCTORS_STATEMENT, term_crn) and the loop over its rows
SelectInstructors(p) ==
    /\ At(p, "get_instr")
    /\ LET all == ScanInstructors(RowsOf(instructors, loc[p].crn))
       IN \/ Fault /\ ReadFailed(p, ErrStore)
          \/ /\ Fault
             /\ \E got \in LoopResults(all, TRUE) :
                   Goto(p, "get_meet", [loc[p] EXCEPT !.instructors = got,
                                                      !.faulted = TRUE,
                                                      !.nstmt = @ + 1])
          \/ /\ NoFault
             /\ \E got \in LoopResults(all, FALSE) :
                   Goto(p, "get_meet", [loc[p] EXCEPT !.instructors = got,
                                                      !.nstmt = @ + 1])
    /\ UNCHANGED <<storeVars, openVars, initVars>>

\* GetCourse returns &Course{...}, nil; inside QueryCourse the course is
\* appended and the loop over the matched CRNs goes on
GetDone(p, course, f) ==
    IF call[p].op = "GetCourse"
    THEN ReturnF(p, Some(course), NoErr, loc[p].nstmt + 1, f)
    ELSE Goto(p, "q_next", [loc[p] EXCEPT !.courses = Append(@, course),
                                          !.crn = <<>>, !.row = Nil,
                                          !.instructors = <<>>,
                                          !.faulted = f,
                                          !.nstmt = @ + 1])

\* db.Query(SELECT_MEETINGS_STATEMENT, term_crn), the loop over its rows and
\* the return
SelectMeetings(p) ==
    /\ At(p, "get_meet")
    /\ LET all == ScanMeetings(RowsOf(meetings, loc[p].crn))
       IN \/ Fault /\ ReadFailed(p, ErrStore)
          \/ /\ Fault
             /\ \E got \in LoopResults(all, TRUE) :
                   GetDone(p, Aggregate(loc[p].row.v, loc[p].instructors, got),
                           TRUE)
          \/ /\ NoFault
             /\ \E got \in LoopResults(all, FALSE) :
                   GetDone(p, Aggregate(loc[p].row.v, loc[p].instructors, got),
                           loc[p].faulted)
    /\ UNCHANGED <<storeVars, openVars, initVars>>

-----------------------------------------------------------------------------
(* GetCourseCRNs *)

CallGetCourseCRNs(p) ==
    /\ Begin(p, "GetCourseCRNs", <<>>, "list", NoLoc)
    /\ UNCHANGED <<storeVars, faultLimit, faultBudget, openVars, initVars>>

\* db.Query("SELECT term_crn FROM courses;"), the loop over its rows and the
\* return
SelectCRNs(p) ==
    /\ At(p, "list")
    /\ LET all == ScanCRNs(courses)
       IN \/ Fault /\ ReadFailed(p, ErrStore)
          \/ /\ Fault
             /\ \E got \in LoopResults(all, TRUE) :
                   ReturnF(p, Some(got), NoErr, 1, TRUE)
          \/ /\ NoFault
             /\ \E got \in LoopResults(all, FALSE) :
                   Return(p, Some(got), NoErr, 1)
    /\ UNCHANGED <<storeVars, openVars, initVars>>

-----------------------------------------------------------------------------
(* QueryCourse *)

\* a QueryCourse that checks len(values) and returns an error
IndexChecked(p, arg) ==
    /\ pc[p] = "idle"
    /\ ~Crashed
    /\ MayCall
    /\ CountCall
    /\ ret' = [ret EXCEPT ![p] =
                 [op |-> "QueryCourse", arg |-> arg, val |-> Nil,
                  err |-> "missing value", nstmt |-> 0, faulted |-> FALSE]]
    /\ prevIns' = [prevIns EXCEPT ![p] = PrevInsert(p)]
    /\ atCall' = [atCall EXCEPT ![p] = NoRows]
    /\ UNCHANGED <<pc, call, loc, cleared>>
    /\ Recorded

\* values[0] or values[1] is read beyond len(values): the runtime panics
\* with index out of range while the arguments of db.Query are evaluated
IndexOutOfRange(p, arg) == Begin(p, "QueryCourse", arg, "panic", NoLoc)

\* the call, the whitelist check and the evaluation of values[0], values[1]
\* in the arguments of db.Query: no statement has been issued yet
CallQueryCourse(p, queryInputs) ==
    /\ \E arg \in queryInputs :
          LET key == arg.key
              values == arg.values
          IN \/ /\ ~IsQueryable(key)
                /\ pc[p] = "idle"
                /\ ~Crashed
                /\ MayCall
                /\ CountCall
                /\ ret' = [ret EXCEPT ![p] =
                             [op |-> "QueryCourse", arg |-> arg, val |-> Nil,
                              err |-> ErrNotQueryable, nstmt |-> 0,
                              faulted |-> FALSE]]
                /\ prevIns' = [prevIns EXCEPT ![p] = PrevInsert(p)]
                /\ atCall' = [atCall EXCEPT ![p] = NoRows]
                /\ UNCHANGED <<pc, call, loc, cleared>>
                /\ Recorded
             \/ /\ IsQueryable(key)
                /\ Len(values) < ValuesNeeded(key)
                /\ IndexOutOfRange(p, arg)
             \/ /\ IsQueryable(key)
                /\ Len(values) >= ValuesNeeded(key)
                /\ Begin(p, "QueryCourse", arg, "q_select", NoLoc)
    /\ UNCHANGED <<storeVars, faultLimit, faultBudget, openVars, initVars>>

\* rows, err = db.Query("SELECT term_crn FROM courses WHERE ...", ...)
QuerySelect(p) ==
    /\ At(p, "q_select")
    /\ \/ Fault /\ ReadFailed(p, ErrStore)
       \/ /\ NoFault
          /\ Goto(p, "q_next",
                  [loc[p] EXCEPT !.rows = MatchingCRNs(call[p].arg.key,
                                                       call[p].arg.values),
                                 !.nstmt = @ + 1])
    /\ UNCHANGED <<storeVars, openVars, initVars>>

\* one turn of "for rows.Next() { rows.Scan(&term_crn) ... GetCourse(term_crn)":
\* the cursor is exhausted, fails (the loop ends as if exhausted), the Scan
\* fails, or the next CRN is handed to GetCourse
QueryNext(p) ==
    /\ At(p, "q_next")
    /\ \/ /\ NoFault
          /\ loc[p].rows = <<>>
          /\ Return(p, Some(loc[p].courses), NoErr, loc[p].nstmt)
       \/ /\ Fault
          /\ loc[p].rows # <<>>
          /\ ReturnF(p, Some(loc[p].courses), NoErr, loc[p].nstmt, TRUE)
       \/ /\ Fault
          /\ loc[p].rows # <<>>
          /\ Return(p, Nil, ErrStore, loc[p].nstmt)
       \/ /\ NoFault
          /\ loc[p].rows # <<>>
          /\ Goto(p, "get_course", [loc[p] EXCEPT !.crn = Head(loc[p].rows),
                                                  !.rows = Tail(loc[p].rows)])
    /\ UNCHANGED <<storeVars, openVars, initVars>>

-----------------------------------------------------------------------------
(* OpenDatabase *)

maxRetries == 5

\* the errors sql.Open may return
OpenErrors == {"open: e1", "open: e2"}

\* the loop condition written as i <= maxRetries
MayAttemptOffByOne(i) == i <= maxRetries

\* the loop condition i < maxRetries
MayAttempt(i) == i < maxRetries

\* time.Sleep(baseDelay * time.Duration(i)), in units of baseDelay
SleepFor(i) == i

\* db, err = sql.Open("sqlite", "hacknh.db") and "if err == nil { break }":
\* attempt number openI + 1
OpenAttempt ==
    /\ openPc = "open"
    /\ \/ /\ handle' = Some(openI + 1)
          /\ openErr' = NoErr
          /\ attempts' = Append(attempts, NoErr)
          /\ openPc' = "done"
          /\ openRet' = [db |-> Some(openI + 1), err |-> NoErr]
       \/ \E e \in OpenErrors :
             /\ handle' = Nil
             /\ openErr' = e
             /\ attempts' = Append(attempts, e)
             /\ openPc' = "sleep"
             /\ UNCHANGED openRet
    /\ UNCHANGED <<openI, sleeps, storeVars, procVars, initVars>>

\* time.Sleep, i++, the loop condition, and "return db, err" when it is false
OpenSleep ==
    /\ openPc = "sleep"
    /\ sleeps' = Append(sleeps, SleepFor(openI))
    /\ openI' = openI + 1
    /\ IF MayAttempt(openI + 1)
       THEN openPc' = "open" /\ UNCHANGED openRet
       ELSE openPc' = "done" /\ openRet' = [db |-> handle, err |-> openErr]
    /\ UNCHANGED <<handle, openErr, attempts, storeVars, procVars, initVars>>

-----------------------------------------------------------------------------
(* Init, the startup function of the package *)

\* the tables of USERS_STATEMENT, COURSES_STATEMENT, INSTRUCTORS_STATEMENT and
\* MEETINGS_STATEMENT, in the order Init executes them
InitStatements == <<"users", "courses", "instructors", "meetings">>

\* a CREATE TABLE without IF NOT EXISTS fails on a table that exists
AlreadyExistsFails(t) == t \in tables

\* CREATE TABLE IF NOT EXISTS does not fail on a table that exists
AlreadyExists(t) == FALSE

\* where Init goes after the statement at position stage succeeded
AfterCreate(stage) ==
    CASE stage = "users" -> "courses"
      [] stage = "courses" -> "instructors"
      [] stage = "instructors" -> "meetings"
      [] OTHER -> "done"

\* Init is called, at process start or again later, and calls OpenDatabase;
\* no repository call is in progress
InitCallOpen ==
    /\ initPc \in {"start", "done"}
    /\ inits < MaxInits
    /\ \A p \in Procs : pc[p] = "idle"
    /\ initPc' = "opening"
    /\ ddl' = <<>>
    /\ openPc' = "open"
    /\ openI' = 0
    /\ openErr' = NoErr
    /\ openRet' = [db |-> Nil, err |-> NoErr]
    /\ attempts' = <<>>
    /\ sleeps' = <<>>
    /\ UNCHANGED <<handle, tables, inits, storeVars, procVars>>

\* db, err := OpenDatabase(); if err != nil { panic(err) }
InitCheckOpen ==
    /\ initPc = "opening"
    /\ openPc = "done"
    /\ initPc' = IF openRet.err # NoErr THEN "panic" ELSE "users"
    /\ UNCHANGED <<tables, ddl, inits, openVars, storeVars, procVars>>

\* _, err = db.Exec(<the CREATE statement at initPc>);
\* if err != nil { panic(err) }; after the last one Init returns
InitExec ==
    /\ initPc \in {InitStatements[k] : k \in DOMAIN InitStatements}
    /\ ddl' = Append(ddl, initPc)
    /\ \/ /\ Fault
          /\ initPc' = "panic"
          /\ UNCHANGED <<tables, inits>>
       \/ /\ NoFault
          /\ AlreadyExists(initPc)
          /\ initPc' = "panic"
          /\ UNCHANGED <<tables, inits>>
       \/ /\ NoFault
          /\ ~AlreadyExists(initPc)
          /\ tables' = tables \cup {initPc}
          /\ initPc' = AfterCreate(initPc)
          /\ inits' = IF AfterCreate(initPc) = "done" THEN inits + 1
                                                     ELSE inits
    /\ UNCHANGED <<pc, call, loc, ret, callsLeft, prevIns, cleared, hadCourse,
                   atCall>>
    /\ UNCHANGED <<storeVars, openVars>>

-----------------------------------------------------------------------------
(* Specifications *)

\* no goroutine has called into the package, the store is empty
InitIdle ==
    /\ courses = <<>>
    /\ instructors = <<>>
    /\ meetings = <<>>
    /\ instrSeq = 0
    /\ meetSeq = 0
    /\ pc = [p \in Procs |-> "idle"]
    /\ call = [p \in Procs |-> NoCall]
    /\ loc = [p \in Procs |-> NoLoc]
    /\ ret = [p \in Procs |-> NoRet]
    /\ prevIns = [p \in Procs |-> Nil]
    /\ cleared = {}
    /\ hadCourse = {}
    /\ atCall = [p \in Procs |-> NoRows]

\* Init has run: the four tables exist and OpenDatabase has returned the
\* handle of its first attempt
InitOpened ==
    /\ initPc = "done"
    /\ tables = {InitStatements[k] : k \in DOMAIN InitStatements}
    /\ ddl = InitStatements
    /\ inits = 1
    /\ handle = Some(1)
    /\ openPc = "done"
    /\ openI = 0
    /\ openErr = NoErr
    /\ openRet = [db |-> Some(1), err |-> NoErr]
    /\ attempts = <<NoErr>>
    /\ sleeps = <<>>

\* goroutines call into the repository on an empty store; in a run no
\* statement fails, or one may
Init ==
    /\ InitIdle
    /\ InitOpened
    /\ faultLimit \in ConcFaultLimits
    /\ faultBudget = faultLimit
    /\ callsLeft = MaxCalls

\* one goroutine calls into the repository on an empty store; statements may
\* fail
InitSeq ==
    /\ InitIdle
    /\ InitOpened
    /\ faultLimit = MaxFaults
    /\ faultBudget = faultLimit
    /\ callsLeft = NoLimit

\* the process starts on an empty database file: Init has not been called
InitBoot ==
    /\ InitIdle
    /\ faultLimit = MaxFaults
    /\ faultBudget = faultLimit
    /\ callsLeft = MaxBootCalls
    /\ initPc = "start"
    /\ tables = {}
    /\ ddl = <<>>
    /\ inits = 0
    /\ handle = Nil
    /\ openPc = "idle"
    /\ openI = 0
    /\ openErr = NoErr
    /\ openRet = [db |-> Nil, err |-> NoErr]
    /\ attempts = <<>>
    /\ sleeps = <<>>

\* OpenDatabase is entered from Init: var db *sql.DB is nil, i := 0
InitOpen ==
    /\ InitIdle
    /\ initPc = "opening"
    /\ tables = {}
    /\ ddl = <<>>
    /\ inits = 0
    /\ faultLimit = 0
    /\ faultBudget = 0
    /\ callsLeft = 0
    /\ handle = Nil
    /\ openPc = "open"
    /\ openI = 0
    /\ openErr = NoErr
    /\ openRet = [db |-> Nil, err |-> NoErr]
    /\ attempts = <<>>
    /\ sleeps = <<>>

\* one step of goroutine p in a writing call
WriteStep(p, courseInputs) ==
    \/ CallInsertCourse(p, courseInputs)
    \/ InsertCourseRow(p)
    \/ InsertInstructorRow(p)
    \/ InsertMeetingRow(p)
    \/ CallDeleteCourse(p)
    \/ DeleteCourseRow(p)
    \/ DeleteInstructorRows(p)
    \/ DeleteMeetingRows(p)

\* one step of goroutine p in a reading call
ReadStep(p, queryInputs) ==
    \/ CallGetCourse(p)
    \/ SelectCourseRow(p)
    \/ SelectInstructors(p)
    \/ SelectMeetings(p)
    \/ CallGetCourseCRNs(p)
    \/ SelectCRNs(p)
    \/ CallQueryCourse(p, queryInputs)
    \/ QuerySelect(p)
    \/ QueryNext(p)

\* goroutines call into the package concurrently: every goroutine makes the
\* writing calls, and the goroutines of ReadProcs the reading calls too
Next ==
    \/ \E p \in Procs : WriteStep(p, ConcCourseInputs)
    \/ \E p \in ReadProcs : ReadStep(p, ConcQueryInputs)

Spec == Init /\ [][Next]_vars

\* one goroutine calls into the package, one call after the other
NextSeq ==
    \/ \E p \in SeqProcs : WriteStep(p, CourseInputs)
    \/ \E p \in SeqProcs : ReadStep(p, QueryInputs)

SpecSeq == InitSeq /\ [][NextSeq]_vars

NextOpen == OpenAttempt \/ OpenSleep

\* the process runs Init, then one goroutine makes writing calls, and Init
\* may be run again between two calls
NextBoot ==
    \/ InitCallOpen
    \/ OpenAttempt
    \/ OpenSleep
    \/ InitCheckOpen
    \/ InitExec
    \/ initPc = "done" /\ \E p \in SeqProcs : WriteStep(p, ConcCourseInputs)

SpecBoot == InitBoot /\ [][NextBoot]_vars

SpecOpen == InitOpen /\ [][NextOpen]_vars

\* OpenDatabase runs on its goroutine until it returns
FairSpecOpen == SpecOpen /\ WF_vars(NextOpen)

-----------------------------------------------------------------------------
(* Properties of the course repository *)

\* the last call of p was op(arg) and it has returned
Returned(p, op) == pc[p] = "idle" /\ ret[p].op = op

\* C1: when GetCourse(c.CRN) is the call right after an InsertCourse(c) that
\* returned nil (so c.CRN had no course row), and the store does not fail
\* under it, it returns nil error and an aggregate equal to c: the same CRN,
\* title, subject, number and description and exactly c's instructors and
\* meetings, ids ignored.
C1_RoundTrip ==
    \A p \in Procs :
       ( /\ Returned(p, "GetCourse")
         /\ ~prevIns[p].nil
         /\ ret[p].arg = prevIns[p].v.CRN
         /\ ~ret[p].faulted )
       => /\ ret[p].err = NoErr
          /\ ret[p].val = Some(prevIns[p].v)

\* no row of any table carries crn
NoRowOf(crn) ==
    /\ RowsOf(courses, crn) = <<>>
    /\ RowsOf(instructors, crn) = <<>>
    /\ RowsOf(meetings, crn) = <<>>

\* the QueryCourse calls that reach the store
StoreQueries ==
    { q \in QueryInputs \cup ConcQueryInputs :
        /\ q.key \in {"term_crn", "title", "subject_code", "course_number",
                      "subject-number"}
        /\ Len(q.values) >= ValuesNeeded(q.key) }

\* C2: once DeleteCourse(crn) has returned nil, and as long as no
\* InsertCourse of that CRN has been started or was in progress since, no
\* course, instructor or meeting row carries crn, the lookup of GetCourse(crn)
\* finds no row (it fails with the no-row error), and the predicate query of
\* no QueryCourse call selects crn.
C2_DeleteClears ==
    \A crn \in cleared :
       /\ NoRowOf(crn)
       /\ \A q \in StoreQueries :
             \A k \in DOMAIN MatchingCRNs(q.key, q.values) :
                MatchingCRNs(q.key, q.values)[k] # crn

\* p is about to issue, or issues in this step, the first statement of
\* InsertCourse for a CRN that has a course row
DuplicateInsert(p) ==
    /\ pc[p] = "ins_course"
    /\ RowsOf(courses, call[p].arg.CRN) # <<>>
    /\ pc'[p] # pc[p]

\* C3, one step: the first statement of an InsertCourse whose CRN has a course
\* row ends the call with a nil-less result, the uniqueness error (or the
\* store's own error when the store fails), and every table and counter as
\* it was
C3_Step ==
    \A p \in Procs :
       DuplicateInsert(p) =>
          /\ pc'[p] = "idle"
          /\ ret'[p].op = "InsertCourse"
          /\ ret'[p].nstmt = 1
          /\ IF faultBudget' # faultBudget THEN ret'[p].err = ErrStore
                                            ELSE ret'[p].err = ErrUnique
          /\ storeVars' = storeVars

\* C3: InsertCourse(c) when a course row with c.CRN exists returns the
\* uniqueness-violation error and leaves the store unchanged: the existing
\* course row keeps its title, subject, number and description and no
\* instructor or meeting row is written.
C3_DuplicateRejected == [][C3_Step]_vars

\* InsertCourse of a course was refused for uniqueness while a different
\* course with the same CRN is stored, which is still the only row of the CRN
C3_Witness ==
    \E p \in Procs :
       /\ Returned(p, "InsertCourse")
       /\ ret[p].err = ErrUnique
       /\ Len(ret[p].arg.Instructors) > 0
       /\ Len(RowsOf(courses, ret[p].arg.CRN)) = 1
       /\ RowsOf(courses, ret[p].arg.CRN)[1] # CourseRow(ret[p].arg)
       /\ RowsOf(instructors, ret[p].arg.CRN) = <<>>

\* the key of QueryCourse call q is none of the five whitelisted keys
OutsideWhitelist(q) ==
    q.key \notin {"term_crn", "title", "subject_code", "course_number",
                  "subject-number"}

\* C4: a QueryCourse call with a key outside {term_crn, title, subject_code,
\* course_number, subject-number} never gets to a statement: it has returned
\* the unsupported-key error and a nil result after zero store statements,
\* whatever the values.
C4_UnsupportedKey ==
    \A p \in Procs :
       /\ (call[p].op = "QueryCourse" => ~OutsideWhitelist(call[p].arg))
       /\ (ret[p].op = "QueryCourse" /\ OutsideWhitelist(ret[p].arg)) =>
             /\ ret[p].err = ErrNotQueryable
             /\ ret[p].val = Nil
             /\ ret[p].nstmt = 0

\* QueryCourse with a key outside the whitelist and a value was refused while
\* the store holds courses
C4_Witness ==
    \E p \in Procs :
       /\ Returned(p, "QueryCourse")
       /\ OutsideWhitelist(ret[p].arg)
       /\ Len(ret[p].arg.values) > 0
       /\ ret[p].err = ErrNotQueryable
       /\ courses # <<>>

\* text with ASCII case folded
FoldText(t) == [k \in 1..Len(t) |-> Lower(t[k])]

\* v occurs in text as a substring, case taken as the backend's LIKE takes it
Contains(text, v) ==
    \E k \in 0..(Len(text) - Len(v)) :
       SubSeq(FoldText(text), k + 1, k + Len(v)) = FoldText(v)

\* the predicate C6 gives for key
ClaimedMatch(key, values, r) ==
    CASE key = "title" -> Contains(r.title, values[1])
      [] key = "subject-number" ->
            /\ r.subject_code = values[1]
            /\ Contains(r.course_number, values[2])
      [] OTHER -> r[key] = values[1]

\* C6: a QueryCourse call with a whitelisted key under which the store did
\* not fail returns nil error and exactly the stored courses that satisfy the
\* key's predicate, each once: title contains values[0]; for subject-number,
\* subject_code equals values[0] and course_number contains values[1]; for
\* the other keys the field equals values[0].
C6_QueryExact ==
    \A p \in Procs :
       ( /\ Returned(p, "QueryCourse")
         /\ ~OutsideWhitelist(ret[p].arg)
         /\ ~ret[p].faulted )
       => /\ ret[p].err = NoErr
          /\ ~ret[p].val.nil
          /\ LET got == ret[p].val.v
             IN /\ \A i, j \in DOMAIN got : i # j => got[i].CRN # got[j].CRN
                /\ {got[i].CRN : i \in DOMAIN got}
                     = {courses[k].term_crn : k \in
                          {n \in DOMAIN courses :
                             ClaimedMatch(ret[p].arg.key, ret[p].arg.values,
                                          courses[n])}}

\* C7: a GetCourse under which the store failed while it read the
\* instructor or meeting rows (opening the query, advancing the cursor,
\* scanning a row) returns that error and a nil course, and a GetCourse that
\* returns nil error carries every instructor row and every meeting row
\* stored for the CRN.
C7_NoTruncatedAggregate ==
    \A p \in Procs :
       Returned(p, "GetCourse") =>
          /\ ret[p].faulted => (ret[p].err # NoErr /\ ret[p].val = Nil)
          /\ ret[p].err = NoErr =>
                /\ ret[p].val.v.Instructors
                     = ScanInstructors(RowsOf(instructors, ret[p].arg))
                /\ ret[p].val.v.Meetings
                     = ScanMeetings(RowsOf(meetings, ret[p].arg))

\* p is inside the GetCourse that QueryCourse called for a matched CRN
Expanding(p) ==
    /\ call[p].op = "QueryCourse"
    /\ pc[p] \in {"get_course", "get_instr", "get_meet"}

\* C8, the returned pair: a QueryCourse that returned an error returned a nil
\* result
C8_Inv ==
    \A p \in Procs :
       (ret[p].op = "QueryCourse" /\ ret[p].err # NoErr) => ret[p].val = Nil

\* C8, one step: when QueryCourse comes back out of the expansion of a matched
\* CRN, it returns an error and a nil result; and the expansion of a CRN
\* whose course row is gone does come back, with the no-row error unless the
\* store itself fails
C8_Step ==
    \A p \in Procs :
       (Expanding(p) /\ pc'[p] # pc[p]) =>
          /\ pc'[p] = "idle" =>
                /\ ret'[p].op = "QueryCourse"
                /\ ret'[p].val = Nil
                /\ ret'[p].err \in {ErrNoRows, ErrStore}
          /\ (pc[p] = "get_course" /\ RowsOf(courses, loc[p].crn) = <<>>) =>
                /\ pc'[p] = "idle"
                /\ ret'[p].err = IF faultBudget' # faultBudget THEN ErrStore
                                                               ELSE ErrNoRows

\* C8: QueryCourse is all-or-nothing: when expanding a matched CRN through
\* GetCourse fails, also because a concurrent DeleteCourse removed the course
\* row between the predicate scan and the expansion, QueryCourse returns that
\* error and a nil result, never the courses expanded so far.
C8_AllOrNothing == []C8_Inv /\ [][C8_Step]_vars

\* a QueryCourse expanded one matched course (four statements) and then found
\* the course row of the next matched CRN gone, with no store failure: it
\* returned the no-row error and nil
C8_Witness ==
    \E p \in Procs :
       /\ Returned(p, "QueryCourse")
       /\ ret[p].err = ErrNoRows
       /\ ret[p].val = Nil
       /\ ret[p].nstmt >= 5
       /\ faultBudget = faultLimit

Min(a, b) == IF a < b THEN a ELSE b

Max(a, b) == IF a > b THEN a ELSE b

\* table2 is table1 with n rows appended
Extends(table2, table1, n) ==
    /\ Len(table2) = Len(table1) + n
    /\ Prefix(table2, Len(table1)) = table1

\* the last rows of the tables are what the first done statements of
\* InsertCourse(c) write: the course row, then c's instructors in list order,
\* then c's meetings in list order
WrittenInOrder(c, done) ==
    LET m == Min(Max(done - 1, 0), Len(c.Instructors))
        j == Max(done - 1 - Len(c.Instructors), 0)
    IN /\ done >= 1 =>
             /\ courses # <<>>
             /\ courses[Len(courses)] = CourseRow(c)
       /\ Len(instructors) >= m
       /\ \A k \in 1..m :
             LET r == instructors[Len(instructors) - m + k]
             IN r.term_crn = c.CRN /\ ScanInstructor(r) = c.Instructors[k]
       /\ j <= Len(c.Meetings)
       /\ Len(meetings) >= j
       /\ \A k \in 1..j :
             LET r == meetings[Len(meetings) - j + k]
             IN r.term_crn = c.CRN /\ ScanMeeting(r) = c.Meetings[k]

\* C9, the rows: while InsertCourse(c) runs and after it has returned, the
\* statements that succeeded have written the course row first, then the
\* instructors in list order, then the meetings in list order; a call that
\* returned an error at its n-th statement has left the rows of the n-1
\* statements before it
C9_Written ==
    \A p \in Procs :
       /\ call[p].op = "InsertCourse" =>
             WrittenInOrder(call[p].arg, loc[p].nstmt)
       /\ Returned(p, "InsertCourse") =>
             WrittenInOrder(ret[p].arg,
                            IF ret[p].err = NoErr THEN ret[p].nstmt
                                                  ELSE ret[p].nstmt - 1)

\* p takes a step of the call it is in
Stepped(p) == pc[p] # "idle" /\ (pc'[p] # pc[p] \/ loc'[p] # loc[p])

\* C9, one step: a statement of InsertCourse that fails ends the call with
\* that error and changes no table (nothing written before is taken back,
\* nothing is written after); one that succeeds appends exactly one row
C9_Step ==
    \A p \in Procs :
       (call[p].op = "InsertCourse" /\ Stepped(p)) =>
          IF pc'[p] = "idle" /\ ret'[p].err # NoErr
          THEN storeVars' = storeVars
          ELSE \E a, b, c \in {0, 1} :
                  /\ a + b + c = 1
                  /\ Extends(courses', courses, a)
                  /\ Extends(instructors', instructors, b)
                  /\ Extends(meetings', meetings, c)

\* C9: InsertCourse writes the course row first, then one instructor row per
\* instructor in list order, then one meeting row per meeting in list order;
\* at the first failing statement it returns that error, every row written
\* before it stays committed and no later row is written.
C9_SequentialInsert == []C9_Written /\ [][C9_Step]_vars

\* InsertCourse of a course with two instructors and a meeting failed at its
\* third statement: the course row and the first instructor row are stored,
\* the second instructor and the meeting are not
C9_Witness ==
    \E p \in Procs :
       /\ Returned(p, "InsertCourse")
       /\ ret[p].err = ErrStore
       /\ ret[p].nstmt = 3
       /\ Len(ret[p].arg.Instructors) = 2
       /\ Len(ret[p].arg.Meetings) = 1
       /\ RowsOf(courses, ret[p].arg.CRN) = <<CourseRow(ret[p].arg)>>
       /\ ScanInstructors(RowsOf(instructors, ret[p].arg.CRN))
            = <<ret[p].arg.Instructors[1]>>
       /\ RowsOf(meetings, ret[p].arg.CRN) = <<>>

\* C10, the order: DeleteCourse is at its second statement only with the
\* course row gone and at its third only with the instructor rows gone too; a
\* call that failed after its first statement has left the course row
\* deleted, and a call that returned nil has run all three
C10_Order ==
    \A p \in Procs :
       /\ (call[p].op = "DeleteCourse" /\ pc[p] \in {"del_instr", "del_meet"})
             => RowsOf(courses, call[p].arg) = <<>>
       /\ (call[p].op = "DeleteCourse" /\ pc[p] = "del_meet")
             => RowsOf(instructors, call[p].arg) = <<>>
       /\ Returned(p, "DeleteCourse") =>
             /\ ret[p].nstmt \in 1..3
             /\ ret[p].nstmt >= 2 => RowsOf(courses, ret[p].arg) = <<>>
             /\ ret[p].nstmt = 3 => RowsOf(instructors, ret[p].arg) = <<>>
             /\ ret[p].err = NoErr =>
                   ret[p].nstmt = 3 /\ NoRowOf(ret[p].arg)

\* C10, one step: a failing statement of DeleteCourse ends the call and
\* changes no table; the first statement touches only courses, the second
\* only instructors, the third only meetings
C10_Step ==
    \A p \in Procs :
       (call[p].op = "DeleteCourse" /\ Stepped(p)) =>
          /\ (pc'[p] = "idle" /\ ret'[p].err # NoErr) =>
                storeVars' = storeVars
          /\ pc[p] = "del_course" =>
                instructors' = instructors /\ meetings' = meetings
          /\ pc[p] = "del_instr" => courses' = courses /\ meetings' = meetings
          /\ pc[p] = "del_meet" =>
                courses' = courses /\ instructors' = instructors
          /\ (pc'[p] # "idle" /\ pc[p] = "del_course") => pc'[p] = "del_instr"
          /\ (pc'[p] # "idle" /\ pc[p] = "del_instr") => pc'[p] = "del_meet"

\* C10: DeleteCourse issues three independent deletes in the order course
\* row, instructor rows, meeting rows, and the first error short-circuits the
\* rest: a failure deleting the course row leaves the instructor and meeting
\* rows of the CRN untouched, and a failure deleting the instructor rows
\* leaves the meeting rows untouched while the course row stays deleted.
C10_DeleteShortCircuit == []C10_Order /\ [][C10_Step]_vars

\* DeleteCourse failed at its second statement: the course row is gone and
\* the instructor and meeting rows of the CRN are still stored, orphaned
C10_Witness ==
    \E p \in Procs :
       /\ Returned(p, "DeleteCourse")
       /\ ret[p].err = ErrStore
       /\ ret[p].nstmt = 2
       /\ RowsOf(courses, ret[p].arg) = <<>>
       /\ RowsOf(instructors, ret[p].arg) # <<>>
       /\ RowsOf(meetings, ret[p].arg) # <<>>

\* C11: whenever GetCourseCRNs has returned nil error, what it returned is a
\* non-null sequence holding exactly the term_crn of every stored course row,
\* each once, in scan order; on an empty store that is the empty sequence.
C11_ListExact ==
    \A p \in SeqProcs :
       (Returned(p, "GetCourseCRNs") /\ ret[p].err = NoErr) =>
          /\ ~ret[p].val.nil
          /\ ret[p].val.v = ScanCRNs(courses)

\* the same for the calls under which no statement and no cursor failed
C11_ListExactUnlessFailed ==
    \A p \in SeqProcs :
       ( /\ Returned(p, "GetCourseCRNs")
         /\ ret[p].err = NoErr
         /\ ~ret[p].faulted ) =>
          /\ ~ret[p].val.nil
          /\ ret[p].val.v = ScanCRNs(courses)

\* the CRNs that have a course row now or had one in an earlier state
EverHadCourse ==
    hadCourse \cup {courses[k].term_crn : k \in DOMAIN courses}

\* C12: in every reachable state, every instructor row and every meeting row
\* carries a term_crn for which a course row exists now or existed at some
\* earlier time: no operation writes a child row for a CRN whose course row
\* was never successfully inserted.
C12_ChildHadCourse ==
    /\ \A k \in DOMAIN instructors : instructors[k].term_crn \in EverHadCourse
    /\ \A k \in DOMAIN meetings : meetings[k].term_crn \in EverHadCourse

\* a child row is stored whose course row is gone: the CRN is borne out only
\* by the course row that existed earlier
C12_Witness ==
    /\ \E k \in DOMAIN instructors :
          RowsOf(courses, instructors[k].term_crn) = <<>>
    /\ \E k \in DOMAIN meetings :
          RowsOf(courses, meetings[k].term_crn) = <<>>

\* C15: a DeleteCourse(crn) that was called, with no other call in progress,
\* when crn had no course row, and under which no statement failed, has
\* returned nil (not a no-row error) after all three statements, and no
\* instructor or meeting row carries crn any more: it clears the orphaned
\* child rows an earlier partial failure left.
C15_DeleteMissingCourse ==
    \A p \in SeqProcs :
       ( /\ Returned(p, "DeleteCourse")
         /\ ~atCall[p].course
         /\ ~ret[p].faulted )
       => /\ ret[p].err = NoErr
          /\ ret[p].nstmt = 3
          /\ NoRowOf(ret[p].arg)

\* DeleteCourse was called for a CRN without a course row but with child
\* rows, and has returned nil with no row of the CRN left
C15_Witness ==
    \E p \in SeqProcs :
       /\ Returned(p, "DeleteCourse")
       /\ ~atCall[p].course
       /\ atCall[p].children
       /\ ret[p].err = NoErr
       /\ NoRowOf(ret[p].arg)

\* no InsertCourse and no DeleteCourse call is in progress
NoWriteInProgress ==
    \A p \in Procs : call[p].op \notin {"InsertCourse", "DeleteCourse"}

\* C16: when no store statement has failed and no InsertCourse or
\* DeleteCourse call is in progress, every instructor row and every meeting
\* row has a term_crn for which a course row exists, also after InsertCourse
\* and DeleteCourse calls of the same CRN ran with their statements
\* interleaved.
C16_OrphanFree ==
    (faultBudget = faultLimit /\ NoWriteInProgress) =>
       /\ \A k \in DOMAIN instructors :
             RowsOf(courses, instructors[k].term_crn) # <<>>
       /\ \A k \in DOMAIN meetings :
             RowsOf(courses, meetings[k].term_crn) # <<>>

\* the rows of the three tables that carry crn
StoredRowsOf(crn) ==
    <<RowsOf(courses, crn), RowsOf(instructors, crn), RowsOf(meetings, crn)>>

\* goroutine p takes a step of an InsertCourse or DeleteCourse call for crn
WriteStepFor(p, crn) ==
    /\ Stepped(p)
    /\ \/ call[p].op = "InsertCourse" /\ call[p].arg.CRN = crn
       \/ call[p].op = "DeleteCourse" /\ call[p].arg = crn

\* C17, one step: the rows of a CRN change only in a step of an InsertCourse
\* or DeleteCourse call made with that CRN, and a step of GetCourse,
\* GetCourseCRNs or QueryCourse changes no table
C17_Step ==
    /\ \A crn \in CRNs :
          StoredRowsOf(crn)' # StoredRowsOf(crn) =>
             \E p \in Procs : WriteStepFor(p, crn)
    /\ (\E p \in Procs :
           /\ Stepped(p)
           /\ call[p].op \in {"GetCourse", "GetCourseCRNs", "QueryCourse"})
          => UNCHANGED <<courses, instructors, meetings>>
    /\ (\A p \in Procs : call[p].op \notin {"InsertCourse", "DeleteCourse"})
          => UNCHANGED <<courses, instructors, meetings>>

\* C17: InsertCourse(c) and DeleteCourse(crn), whether they succeed or fail,
\* add, change or remove only rows whose term_crn is the CRN they were called
\* with, and the rows of every other CRN are unchanged; GetCourse,
\* GetCourseCRNs and QueryCourse never change a stored row.
C17_Frame == [][C17_Step]_vars

\* DeleteCourse removed the course row of its CRN and returned nil while the
\* course row and child rows of another CRN are stored
C17_Witness ==
    \E p \in Procs :
       /\ Returned(p, "DeleteCourse")
       /\ ret[p].err = NoErr
       /\ atCall[p].course
       /\ NoRowOf(ret[p].arg)
       /\ \E other \in CRNs \ {ret[p].arg} :
             /\ RowsOf(courses, other) # <<>>
             /\ \/ RowsOf(instructors, other) # <<>>
                \/ RowsOf(meetings, other) # <<>>

\* the values C18 says the key of QueryCourse call q reads
ValuesRead(q) == IF q.key = "subject-number" THEN 2 ELSE 1

\* QueryCourse call q has a whitelisted key and too few values for it
TooFewValues(q) == ~OutsideWhitelist(q) /\ Len(q.values) < ValuesRead(q)

\* C18, the state: a QueryCourse call with a whitelisted key and too few
\* values is in the panic, has issued no statement and has returned no
\* (result, error) pair; nothing else panics; and a call with a whitelisted
\* key and enough values is not refused: when it has returned it has issued
\* its statement
C18_Inv ==
    \A p \in Procs :
       /\ (call[p].op = "QueryCourse" /\ TooFewValues(call[p].arg)) =>
             /\ pc[p] = "panic"
             /\ loc[p].nstmt = 0
             /\ ret[p] = NoRet
       /\ pc[p] = "panic" =>
             (call[p].op = "QueryCourse" /\ TooFewValues(call[p].arg))
       /\ (ret[p].op = "QueryCourse" /\ ~OutsideWhitelist(ret[p].arg)) =>
             /\ ~TooFewValues(ret[p].arg)
             /\ ret[p].nstmt >= 1

\* C18: QueryCourse with a whitelisted key but too few values (none, or only
\* one for subject-number) does not return a (result, error) pair: it aborts
\* with a runtime panic before any store access, and after the panic the
\* process takes no step; the whitelist check is the only validation of the
\* arguments.
C18_PanicOnMissingValue == []C18_Inv /\ [][~Crashed]_vars

\* QueryCourse("subject-number", v) with a single value has panicked while
\* courses are stored
C18_Witness ==
    \E p \in Procs :
       /\ pc[p] = "panic"
       /\ call[p].arg.key = "subject-number"
       /\ Len(call[p].arg.values) = 1
       /\ courses # <<>>

-----------------------------------------------------------------------------
(* Properties of OpenDatabase *)

OpenReturned == openPc = "done"

\* what C5 says of the attempts made so far and of the returned pair
C5_Safe ==
    /\ Len(attempts) <= 5
    /\ \A k \in 1..(Len(attempts) - 1) : attempts[k] # NoErr
    /\ OpenReturned =>
          /\ Len(attempts) >= 1
          /\ IF attempts[Len(attempts)] = NoErr
             THEN openRet = [db |-> Some(Len(attempts)), err |-> NoErr]
             ELSE /\ Len(attempts) = 5
                  /\ openRet.err = attempts[5]
                  /\ openRet.err # NoErr

\* C5: OpenDatabase makes at most 5 open attempts, makes none after one that
\* succeeded and then returns the handle of that attempt with a nil error;
\* when it returns after a failed attempt, that attempt is the fifth and the
\* error returned is the fifth attempt's; and every run of it returns.
C5_BoundedRetry == []C5_Safe /\ <>OpenReturned

\* attempts 1 to 4 failed, attempt 5 succeeded, and its handle was returned
C5_Witness ==
    /\ OpenReturned
    /\ Len(attempts) = 5
    /\ \A k \in 1..4 : attempts[k] # NoErr
    /\ attempts[5] = NoErr
    /\ openRet = [db |-> Some(5), err |-> NoErr]

\* the k-th wait follows the failed attempt with 0-based index k - 1 and
\* lasts k - 1 base delays (none before the first retry), and no wait follows
\* a successful attempt
C14_WaitAfterFailure ==
    /\ Len(sleeps) <= Len(attempts)
    /\ \A k \in DOMAIN sleeps :
          /\ sleeps[k] = k - 1
          /\ attempts[k] # NoErr
    /\ openPc = "open" => Len(sleeps) = Len(attempts)
    /\ openPc = "sleep" => Len(sleeps) = Len(attempts) - 1

\* C14: OpenDatabase waits only between two consecutive attempts: after the
\* failed attempt with 0-based index i it waits i base delays and then makes
\* attempt i + 1; no wait follows a successful attempt, and no wait follows
\* an attempt that is not followed by another attempt, so when OpenDatabase
\* has returned it has waited once less than it has attempted.
C14_WaitsOnlyBetween ==
    /\ C14_WaitAfterFailure
    /\ OpenReturned => Len(sleeps) = Len(attempts) - 1

-----------------------------------------------------------------------------
(* Properties of Init *)

\* Init is at one of its CREATE statements
AtCreate == initPc \in {InitStatements[k] : k \in DOMAIN InitStatements}

\* C13, the order: the CREATE statements Init has issued are an initial part
\* of users, courses, instructors, meetings, the one it is at is the next of
\* them, none is issued before OpenDatabase has returned a handle without
\* error, and Init has returned only with all four issued and the four tables
\* existing
C13_Order ==
    /\ Len(ddl) <= Len(InitStatements)
    /\ \A k \in DOMAIN ddl : ddl[k] = InitStatements[k]
    /\ AtCreate => initPc = InitStatements[Len(ddl) + 1]
    /\ (AtCreate \/ ddl # <<>>) =>
          /\ openPc = "done"
          /\ openRet.err = NoErr
          /\ ~openRet.db.nil
    /\ initPc = "done" =>
          /\ ddl = InitStatements
          /\ tables = {InitStatements[k] : k \in DOMAIN InitStatements}

\* C13, one step: after the panic nothing happens (no retry, no later
\* statement); a failed CREATE statement and a failed OpenDatabase panic;
\* Init panics for no other reason, so it succeeds when nothing fails, also
\* on a store that is already initialised; and no step of Init changes a
\* stored row, nor a table once Init has run before
C13_Step ==
    /\ initPc # "panic"
    /\ (AtCreate /\ faultBudget' # faultBudget) => initPc' = "panic"
    /\ (initPc = "opening" /\ openPc = "done" /\ openRet.err # NoErr) =>
          initPc' = "panic"
    /\ initPc' = "panic" =>
          \/ AtCreate /\ faultBudget' # faultBudget
          \/ initPc = "opening" /\ openRet.err # NoErr /\ ddl = <<>>
    /\ (initPc # "done" \/ initPc' # "done") =>
          /\ UNCHANGED <<courses, instructors, meetings>>
          /\ inits >= 1 => tables' = tables

\* C13: Init first opens the connection, then executes the
\* create-if-not-exists statements in the fixed order users, courses,
\* instructors, meetings; a failure of OpenDatabase or of any statement is
\* fatal (a panic), is not retried by Init, and no later statement is
\* executed after it. Running Init again on an already initialised store
\* succeeds and changes no stored row.
C13_InitOrderFatal == []C13_Order /\ [][C13_Step]_vars

\* Init has run a second time, on a store that holds a course row and an
\* instructor row, and has returned
C13_Witness ==
    /\ inits = 2
    /\ initPc = "done"
    /\ courses # <<>>
    /\ instructors # <<>>

====
